---- MODULE Spec2Model ----
(***************************************************************************)
(* JustPlug plugin manager: the Registry (pluginsMap), the dependency      *)
(* check, the load-order computation and the load / unload operations of   *)
(* src/src/pluginmanagerprivate.cpp, with the dependency graph of          *)
(* src/unnamed/part_001.                                                   *)
(*                                                                         *)
(* Every API call is one atomic action.  Dereferencing a null PluginPtr    *)
(* and unbounded recursion (stack exhaustion) end the process: the model   *)
(* records them as status = "crashed" and the call never returns.          *)
(***************************************************************************)
EXTENDS Integers, Sequences, FiniteSets, TLC

VARIABLES
    depTable,       \* the dependencies written in the meta.json of the libraries on disk
    pluginsMap,     \* PlugMgrPrivate::pluginsMap: jp_name -> PluginPtr
    loadOrderList,  \* PlugMgrPrivate::loadOrderList
    locations,      \* PlugMgrPrivate::locations
    mainPluginName, \* PlugMgrPrivate::mainPluginName ("" = none)
    status,         \* "running" or "crashed"
    liveOrder,      \* history: the plugins with a live instance, in the order of their loaded()
    ncalls,         \* history: the number of API calls made
    last,           \* history: the last API call, its result, callbacks and plugin calls
    reply,          \* history: the last request a plugin sent to the manager, and the answer
    graph           \* a Graph object on its own: its node list and what topologicalSort gave

vars == <<depTable, pluginsMap, loadOrderList, locations, mainPluginName,
          status, liveOrder, ncalls, last, reply, graph>>

(***************************************************************************)
(* Bounds of the model.                                                    *)
(***************************************************************************)
\* how many API calls one run makes
MaxCalls == 4
\* how many library handles may refuse to close during one unload call
MaxStuck == 1
\* how many libraries an enumeration that fails still lists
MaxListed == 1
\* how many API calls come before the requests of the plugins
MaxSetup == 3
\* how many nodes a Graph on its own has, and how many parents a node
MaxNodes == 3
MaxParents == 2

(***************************************************************************)
(* Versions (thirdparty/version/version.h is not part of the sources; the  *)
(* comparison is the one of the specification, section 4.1).               *)
(***************************************************************************)
\* Version(str): the parsed <<MAJOR, MINOR, PATCH>>; a string that holds no
\* version (the empty version of a record whose metadata was never parsed)
\* parses as 0.0.0
NoVersion == <<0, 0, 0>>

Compatible(v, required) ==
    /\ v[1] = required[1]
    /\ \/ v[2] > required[2]
       \/ v[2] = required[2] /\ v[3] >= required[3]

\* -DJP_PLUGIN_API="1.0.0"
JP_PLUGIN_API == <<1, 0, 0>>

(***************************************************************************)
(* The libraries on disk.                                                  *)
(***************************************************************************)
PluginNames == {"A", "B", "C"}

Dep(n, v) == [name |-> n, version |-> v]

V100 == <<1, 0, 0>>
V150 == <<1, 5, 0>>
V200 == <<2, 0, 0>>
V210 == <<2, 1, 0>>

V170 == <<1, 7, 0>>

\* The dependency tables the libraries of A, B and C may carry.
DepTables ==
    { \* E1 and a diamond: B needs A, C needs A and B
      [A |-> <<>>, B |-> <<Dep("A", V100)>>, C |-> <<Dep("A", V100), Dep("B", V100)>>],
      \* a chain C -> B -> A, B listing A twice
      [A |-> <<>>, B |-> <<Dep("A", V100), Dep("A", V150)>>, C |-> <<Dep("B", V100)>>],
      \* E2: B needs C, which lives in the other directory
      [A |-> <<>>, B |-> <<Dep("C", V100)>>, C |-> <<>>],
      \* E3: B needs A >= 2.0.0 and the A beside it is 1.5.0; C needs B
      [A |-> <<>>, B |-> <<Dep("A", V200)>>, C |-> <<Dep("B", V100)>>],
      \* two failing dependencies each: the missing one first for A, the
      \* incompatible one (minor version too old) first for B
      [A |-> <<Dep("C", V100), Dep("B", V200)>>,
       B |-> <<Dep("A", V170), Dep("C", V100)>>, C |-> <<>>],
      \* E4: A and B need each other, and C needs itself
      [A |-> <<Dep("B", V100)>>, B |-> <<Dep("A", V100)>>, C |-> <<Dep("C", V100)>>] }

\* One library file: its directory, whether it loads and exports the three
\* symbols, the jp_name symbol and the content of the jp_metadata symbol.
File(dir, isPlugin, name, wellFormed, api, version) ==
    [dir |-> dir, isPlugin |-> isPlugin, jp_name |-> name,
     wellFormed |-> wellFormed, api |-> api, version |-> version]

Files ==
    << File("d1", TRUE, "A", TRUE, V100, V150),
       File("d1", TRUE, "B", TRUE, V100, V100),
       File("d2", TRUE, "C", TRUE, V100, V100),
       File("d2", TRUE, "A", TRUE, V100, V210),    \* a second library named A
       File("d2", TRUE, "D", FALSE, V100, V100) >> \* metadata that is no valid JSON

Dirs == {"d1", "d2"}
FileIds == DOMAIN Files
FilesIn(dir) == {f \in FileIds : Files[f].dir = dir}

\* every name a Registry key or an argument takes; "Z" names no library
Keys == PluginNames
ArgNames == Keys \cup {"Z"}

(***************************************************************************)
(* Sequences.                                                              *)
(***************************************************************************)
\* the orderings of a finite set
Perms(S) ==
    {s \in [1..Cardinality(S) -> S] : \A i, j \in DOMAIN s : i # j => s[i] # s[j]}

Range(s) == {s[i] : i \in DOMAIN s}

Reverse(s) == [i \in 1..Len(s) |-> s[Len(s) + 1 - i]]

\* s without the entries equal to x
RECURSIVE Without(_, _)
Without(s, x) ==
    IF s = <<>> THEN <<>>
    ELSE IF Head(s) = x THEN Without(Tail(s), x)
    ELSE <<Head(s)>> \o Without(Tail(s), x)

\* the first index of x in s, 0 when absent
RECURSIVE IndexOf(_, _)
IndexOf(s, x) ==
    IF s = <<>> THEN 0
    ELSE IF Head(s) = x THEN 1
    ELSE LET k == IndexOf(Tail(s), x) IN IF k = 0 THEN 0 ELSE k + 1

(***************************************************************************)
(* Records of the Registry.                                                *)
(***************************************************************************)
\* a null PluginPtr
NullPtr == [null |-> TRUE]

\* PluginInfoStd(): the invalid metadata, name empty
EmptyInfo == [name |-> "", version |-> NoVersion, dependencies |-> <<>>]

\* new Plugin(): dependenciesExists indeterminate, no instance.  `failure` is
\* history: the code checkDependencies returned when it set the flag to false.
NewPlugin(path, info) ==
    [null |-> FALSE, path |-> path, info |-> info,
     dependenciesExists |-> "indeterminate", failure |-> "", iplugin |-> FALSE,
     libLoaded |-> TRUE, isMainPlugin |-> FALSE]

\* PlugMgrPrivate::parseMetadata
parseMetadata(f) ==
    IF Files[f].wellFormed /\ Compatible(Files[f].api, JP_PLUGIN_API)
    THEN [name |-> Files[f].jp_name, version |-> Files[f].version,
          dependencies |-> IF Files[f].jp_name \in DOMAIN depTable
                           THEN depTable[Files[f].jp_name] ELSE <<>>]
    ELSE EmptyInfo

hasPlugin(name) == name \in DOMAIN pluginsMap

isPluginLoaded(name) ==
    /\ hasPlugin(name)
    /\ ~pluginsMap[name].null
    /\ pluginsMap[name].libLoaded
    /\ pluginsMap[name].iplugin

\* the record of the key n holds a plugin instance
Instance(pm, n) == n \in DOMAIN pm /\ ~pm[n].null /\ pm[n].iplugin

\* a map without one key
Erase(pm, name) == [k \in DOMAIN pm \ {name} |-> pm[k]]

\* a map with one key set
Put(pm, name, p) == [k \in DOMAIN pm \cup {name} |-> IF k = name THEN p ELSE pm[k]]

\* the record of one API call
Call(op, arg, flag, ret, cb, calls) ==
    [op |-> op, arg |-> arg, flag |-> flag, ret |-> ret, cb |-> cb, calls |-> calls]

\* the order of loaded() among the live instances after the plugin calls evs
RECURSIVE Live(_, _)
Live(order, evs) ==
    IF evs = <<>> THEN order
    ELSE LET e == Head(evs) IN
         Live(IF e[1] = "loaded" THEN Without(order, e[2]) \o <<e[2]>>
              ELSE IF e[1] \in {"aboutToBeUnloaded", "create"} THEN Without(order, e[2])
              ELSE order,
              Tail(evs))

(***************************************************************************)
(* PlugMgrPrivate::checkDependencies.                                      *)
(* The result is the map with the flags the call set, the ReturnCode (or   *)
(* "CRASH" when the call never returns) and the callbacks fired.  `stack`  *)
(* holds the records whose check is in progress: entering one of them      *)
(* again repeats the same recursion without end.                           *)
(***************************************************************************)
Outcome(pm, ret, cb) == [pm |-> pm, ret |-> ret, cb |-> cb]

\* callbackFunc(code, path) when a callback was given
Fire(hasCb, code, path) == IF hasCb THEN <<(<<code, path>>)>> ELSE <<>>

\* the answer for a record whose flag is known (lines 101-104)
CachedCode(pm, n) ==
    IF pm[n].dependenciesExists = "true" THEN "SUCCESS"
    ELSE IF pm[n].info.name \notin DOMAIN pm THEN "LOAD_DEPENDENCY_NOT_FOUND"
    ELSE "LOAD_DEPENDENCY_BAD_VERSION"

RECURSIVE checkDependencies(_, _, _, _)
RECURSIVE checkDependenciesFrom(_, _, _, _, _)

\* Fault: the loop with `plugin->dependenciesExists = false` left out where a
\* dependency has no record
checkDependenciesFromKeepingFlag(pm, n, i, stack, hasCb) ==
    IF i > Len(pm[n].info.dependencies)
    THEN Outcome([pm EXCEPT ![n].dependenciesExists = "true"], "SUCCESS", <<>>)
    ELSE LET depName == pm[n].info.dependencies[i].name
             depVer == pm[n].info.dependencies[i].version
         IN  IF depName \notin DOMAIN pm
             THEN Outcome(pm, "LOAD_DEPENDENCY_NOT_FOUND",
                          Fire(hasCb, "LOAD_DEPENDENCY_NOT_FOUND", pm[n].path))
             ELSE IF pm[depName].null
             THEN Outcome(pm, "CRASH", <<>>)
             ELSE IF ~Compatible(pm[depName].info.version, depVer)
             THEN Outcome([pm EXCEPT ![n].dependenciesExists = "false",
                                     ![n].failure = "LOAD_DEPENDENCY_BAD_VERSION"],
                          "LOAD_DEPENDENCY_BAD_VERSION",
                          Fire(hasCb, "LOAD_DEPENDENCY_BAD_VERSION", pm[n].path))
             ELSE LET r == checkDependencies(pm, depName, stack, hasCb)
                  IN  IF r.ret # "SUCCESS" THEN r
                      ELSE checkDependenciesFrom(r.pm, n, i + 1, stack, hasCb)

\* the loop over plugin->info.dependencies, from the i-th dependency on
checkDependenciesFrom(pm, n, i, stack, hasCb) ==
    IF i > Len(pm[n].info.dependencies)
    THEN Outcome([pm EXCEPT ![n].dependenciesExists = "true"], "SUCCESS", <<>>)
    ELSE LET depName == pm[n].info.dependencies[i].name
             depVer == pm[n].info.dependencies[i].version
         IN  IF depName \notin DOMAIN pm
             THEN Outcome([pm EXCEPT ![n].dependenciesExists = "false",
                                     ![n].failure = "LOAD_DEPENDENCY_NOT_FOUND"],
                          "LOAD_DEPENDENCY_NOT_FOUND",
                          Fire(hasCb, "LOAD_DEPENDENCY_NOT_FOUND", pm[n].path))
             ELSE IF pm[depName].null
             THEN Outcome(pm, "CRASH", <<>>)
             ELSE IF ~Compatible(pm[depName].info.version, depVer)
             THEN Outcome([pm EXCEPT ![n].dependenciesExists = "false",
                                     ![n].failure = "LOAD_DEPENDENCY_BAD_VERSION"],
                          "LOAD_DEPENDENCY_BAD_VERSION",
                          Fire(hasCb, "LOAD_DEPENDENCY_BAD_VERSION", pm[n].path))
             ELSE LET r == checkDependencies(pm, depName, stack, hasCb)
                  IN  IF r.ret # "SUCCESS" THEN r
                      ELSE checkDependenciesFrom(r.pm, n, i + 1, stack, hasCb)

checkDependencies(pm, n, stack, hasCb) ==
    IF pm[n].null THEN Outcome(pm, "CRASH", <<>>)
    ELSE IF pm[n].dependenciesExists # "indeterminate"
    THEN Outcome(pm, CachedCode(pm, n), <<>>)
    ELSE IF n \in stack THEN Outcome(pm, "CRASH", <<>>)
    ELSE checkDependenciesFrom(pm, n, 1, stack \cup {n}, hasCb)

(***************************************************************************)
(* Graph (src/unnamed/part_001).  A node is [name, parentNodes]; the       *)
(* parents are indices into the node list (1-based here, 0-based there).   *)
(***************************************************************************)
RECURSIVE visitNode(_, _, _)
RECURSIVE visitParents(_, _, _, _)

\* g = [flag, list, ok]: the marks, the names appended so far, and FALSE
\* once a node marked MARK_TEMP was visited
visitParents(nodeList, id, k, g) ==
    IF k > Len(nodeList[id].parentNodes) THEN g
    ELSE LET r == visitNode(nodeList, nodeList[id].parentNodes[k], g)
         IN  IF ~r.ok THEN r ELSE visitParents(nodeList, id, k + 1, r)

\* Fault: the node appended to the list before its parents are visited
visitNodePreOrder(nodeList, id, g) ==
    IF g.flag[id] = "MARK_PERMANENT" THEN g
    ELSE IF g.flag[id] = "MARK_TEMP" THEN [g EXCEPT !.ok = FALSE]
    ELSE LET r == visitParents(nodeList, id, 1,
                      [g EXCEPT !.flag[id] = "MARK_TEMP",
                                !.list = g.list \o <<nodeList[id].name>>])
         IN  IF ~r.ok THEN r
             ELSE [r EXCEPT !.flag[id] = "MARK_PERMANENT"]

\* Fault: a node marked MARK_TEMP taken for one that is done
visitNodeTakingTempForDone(nodeList, id, g) ==
    IF g.flag[id] # "UNMARKED" THEN g
    ELSE LET r == visitParents(nodeList, id, 1, [g EXCEPT !.flag[id] = "MARK_TEMP"])
         IN  IF ~r.ok THEN r
             ELSE [r EXCEPT !.flag[id] = "MARK_PERMANENT",
                            !.list = r.list \o <<nodeList[id].name>>]

visitNode(nodeList, id, g) ==
    IF g.flag[id] = "MARK_PERMANENT" THEN g
    ELSE IF g.flag[id] = "MARK_TEMP" THEN [g EXCEPT !.ok = FALSE]
    ELSE LET r == visitParents(nodeList, id, 1, [g EXCEPT !.flag[id] = "MARK_TEMP"])
         IN  IF ~r.ok THEN r
             ELSE [r EXCEPT !.flag[id] = "MARK_PERMANENT",
                            !.list = r.list \o <<nodeList[id].name>>]

\* Fault: the loop over the nodes left after the first visit
topologicalSortFromFirstOnly(nodeList, id, g) ==
    IF id > Len(nodeList) THEN [error |-> FALSE, list |-> g.list]
    ELSE LET r == visitNode(nodeList, id, g)
         IN  IF ~r.ok THEN [error |-> TRUE, list |-> <<>>]
             ELSE [error |-> FALSE, list |-> r.list]

RECURSIVE topologicalSortFrom(_, _, _)
topologicalSortFrom(nodeList, id, g) ==
    IF id > Len(nodeList) THEN [error |-> FALSE, list |-> g.list]
    ELSE IF g.flag[id] # "UNMARKED" THEN topologicalSortFrom(nodeList, id + 1, g)
    ELSE LET r == visitNode(nodeList, id, g)
         IN  IF ~r.ok THEN [error |-> TRUE, list |-> <<>>]
             ELSE topologicalSortFrom(nodeList, id + 1, r)

\* Graph::topologicalSort: [error, list]
topologicalSort(nodeList) ==
    topologicalSortFrom(nodeList, 1,
        [flag |-> [i \in DOMAIN nodeList |-> "UNMARKED"], list |-> <<>>, ok |-> TRUE])

(***************************************************************************)
(* The result of a handler: the state it leaves, what it returned ("CRASH" *)
(* when it never returns), the callbacks it fired and the calls it made on *)
(* plugins (<<"create", n>>, <<"loaded", n>>, <<"aboutToBeUnloaded", n>>,  *)
(* <<"mainPluginExec", n>>), in order.                                     *)
(***************************************************************************)
Result(pm, lol, loc, main, ret, cb, calls) ==
    [pm |-> pm, lol |-> lol, loc |-> loc, main |-> main,
     ret |-> ret, cb |-> cb, calls |-> calls]

(***************************************************************************)
(* PluginManager::searchForPlugins                                         *)
(***************************************************************************)
\* what fsutil::listLibrariesInDir can answer: every library of the
\* directory, or an error with the libraries read before it
Listings(dir) ==
    {[ok |-> TRUE, libList |-> l] : l \in Perms(FilesIn(dir))}
    \cup {[ok |-> FALSE, libList |-> l] :
            l \in UNION {Perms(S) : S \in {T \in SUBSET FilesIn(dir) :
                                                Cardinality(T) <= MaxListed}}}

\* the answers of the enumeration, by directory
DirListings == [dir \in Dirs |-> Listings(dir)]

\* Fault: the loop with a library whose name is taken replacing the record
\* of that name
RECURSIVE searchFromOverwriting(_, _, _, _, _, _)
searchFromOverwriting(pm, libList, i, hasCb, cb, found) ==
    IF i > Len(libList) THEN [pm |-> pm, cb |-> cb, found |-> found]
    ELSE LET f == libList[i]
             name == Files[f].jp_name
             info == parseMetadata(f)
         IN  IF ~Files[f].isPlugin
             THEN searchFromOverwriting(pm, libList, i + 1, hasCb, cb, found)
             ELSE IF info.name = ""
             THEN searchFromOverwriting(pm, libList, i + 1, hasCb,
                             cb \o Fire(hasCb, "SEARCH_CANNOT_PARSE_METADATA", f), found)
             ELSE IF name \in DOMAIN pm /\ pm[name].null
             THEN searchFromOverwriting(pm, libList, i + 1, hasCb, cb, found)
             ELSE searchFromOverwriting(Put(pm, name, NewPlugin(f, info)), libList,
                                        i + 1, hasCb, cb, TRUE)

\* Fault: the loop dropping a library whose name is taken without a word to
\* the callback
RECURSIVE searchFromSilentCollision(_, _, _, _, _, _)
searchFromSilentCollision(pm, libList, i, hasCb, cb, found) ==
    IF i > Len(libList) THEN [pm |-> pm, cb |-> cb, found |-> found]
    ELSE LET f == libList[i]
             name == Files[f].jp_name
             info == parseMetadata(f)
         IN  IF ~Files[f].isPlugin \/ name \in DOMAIN pm
             THEN searchFromSilentCollision(pm, libList, i + 1, hasCb, cb, found)
             ELSE IF info.name = ""
             THEN searchFromSilentCollision(pm, libList, i + 1, hasCb,
                             cb \o Fire(hasCb, "SEARCH_CANNOT_PARSE_METADATA", f), found)
             ELSE searchFromSilentCollision(Put(pm, name, NewPlugin(f, info)), libList,
                                            i + 1, hasCb, cb, TRUE)

\* Fault: the loop left at the first library that is rejected
RECURSIVE searchFromStoppingAtReject(_, _, _, _, _, _)
searchFromStoppingAtReject(pm, libList, i, hasCb, cb, found) ==
    IF i > Len(libList) THEN [pm |-> pm, cb |-> cb, found |-> found]
    ELSE LET f == libList[i]
             name == Files[f].jp_name
             info == parseMetadata(f)
         IN  IF ~Files[f].isPlugin
             THEN searchFromStoppingAtReject(pm, libList, i + 1, hasCb, cb, found)
             ELSE IF name \in DOMAIN pm
             THEN [pm |-> pm, found |-> found,
                   cb |-> cb \o Fire(hasCb, "SEARCH_NAME_ALREADY_EXISTS", f)]
             ELSE IF info.name = ""
             THEN [pm |-> pm, found |-> found,
                   cb |-> cb \o Fire(hasCb, "SEARCH_CANNOT_PARSE_METADATA", f)]
             ELSE searchFromStoppingAtReject(Put(pm, name, NewPlugin(f, info)), libList,
                                             i + 1, hasCb, cb, TRUE)

\* the loop over libList, from the i-th path on: [pm, cb, found]
RECURSIVE searchFrom(_, _, _, _, _, _)
searchFrom(pm, libList, i, hasCb, cb, found) ==
    IF i > Len(libList) THEN [pm |-> pm, cb |-> cb, found |-> found]
    ELSE LET f == libList[i]
             name == Files[f].jp_name
             info == parseMetadata(f)
         IN  IF ~Files[f].isPlugin
             THEN searchFrom(pm, libList, i + 1, hasCb, cb, found)
             ELSE IF name \in DOMAIN pm
             THEN searchFrom(pm, libList, i + 1, hasCb,
                             cb \o Fire(hasCb, "SEARCH_NAME_ALREADY_EXISTS", f), found)
             ELSE IF info.name = ""
             THEN searchFrom(pm, libList, i + 1, hasCb,
                             cb \o Fire(hasCb, "SEARCH_CANNOT_PARSE_METADATA", f), found)
             ELSE searchFrom(Put(pm, name, NewPlugin(f, info)), libList, i + 1,
                             hasCb, cb, TRUE)

searchForPlugins(pluginDir, listing, hasCb) ==
    LET err == IF listing.ok THEN <<>> ELSE Fire(hasCb, "SEARCH_LISTFILES_ERROR", 0)
        r == searchFrom(pluginsMap, listing.libList, 1, hasCb, err, FALSE)
    IN  IF ~listing.ok /\ listing.libList = <<>>
        THEN Result(pluginsMap, loadOrderList, locations, mainPluginName,
                    "SEARCH_LISTFILES_ERROR", err, <<>>)
        ELSE IF r.found
        THEN Result(r.pm, loadOrderList,
                    IF pluginDir \in Range(locations) THEN locations
                    ELSE Append(locations, pluginDir),
                    mainPluginName, "SUCCESS", r.cb, <<>>)
        ELSE Result(r.pm, loadOrderList, locations, mainPluginName,
                    "SEARCH_NOTHING_FOUND", r.cb, <<>>)

(***************************************************************************)
(* PluginManager::registerMainPlugin                                       *)
(***************************************************************************)
\* Fault: the registration made although a main plugin is registered
registerMainPluginAgain(pluginName) ==
    IF hasPlugin(pluginName)
    THEN IF pluginsMap[pluginName].null
         THEN Result(pluginsMap, loadOrderList, locations, pluginName, "CRASH", <<>>, <<>>)
         ELSE Result([pluginsMap EXCEPT ![pluginName].isMainPlugin = TRUE],
                     loadOrderList, locations, pluginName, "SUCCESS", <<>>, <<>>)
    ELSE Result(pluginsMap, loadOrderList, locations, mainPluginName,
                "UNKNOWN_ERROR", <<>>, <<>>)

registerMainPlugin(pluginName) ==
    IF mainPluginName = "" /\ hasPlugin(pluginName)
    THEN IF pluginsMap[pluginName].null
         THEN Result(pluginsMap, loadOrderList, locations, pluginName, "CRASH", <<>>, <<>>)
         ELSE Result([pluginsMap EXCEPT ![pluginName].isMainPlugin = TRUE],
                     loadOrderList, locations, pluginName, "SUCCESS", <<>>, <<>>)
    ELSE Result(pluginsMap, loadOrderList, locations, mainPluginName,
                "UNKNOWN_ERROR", <<>>, <<>>)

(***************************************************************************)
(* PlugMgrPrivate::loadPlugin and loadPluginsInOrder                       *)
(***************************************************************************)
\* Fault: the instance created and loaded() never called on it
PlugMgrPrivate_loadPluginSilently(pm, n) ==
    [pm |-> [pm EXCEPT ![n].iplugin = TRUE], calls |-> << <<"create", n>> >>]

\* the factory, then loaded(): [pm, calls]
PlugMgrPrivate_loadPlugin(pm, n) ==
    [pm |-> [pm EXCEPT ![n].iplugin = TRUE],
     calls |-> << <<"create", n>>, <<"loaded", n>> >>]

RECURSIVE loadPluginsInOrder(_, _)
loadPluginsInOrder(pm, list) ==
    IF list = <<>> THEN [pm |-> pm, calls |-> <<>>]
    ELSE LET one == PlugMgrPrivate_loadPlugin(pm, Head(list))
             rest == loadPluginsInOrder(one.pm, Tail(list))
         IN  [pm |-> rest.pm, calls |-> one.calls \o rest.calls]

(***************************************************************************)
(* PluginManager::loadPlugins                                              *)
(***************************************************************************)
\* Fault: the first step going on after a failed check whatever tryToContinue
RECURSIVE checkAllContinuing(_, _, _, _, _, _, _)
checkAllContinuing(pm, order, i, tryToContinue, hasCb, nodes, cb) ==
    IF i > Len(order) THEN [pm |-> pm, ret |-> "SUCCESS", cb |-> cb, nodes |-> nodes]
    ELSE IF pm[order[i]].null THEN [pm |-> pm, ret |-> "CRASH", cb |-> cb, nodes |-> nodes]
    ELSE LET r == checkDependencies(pm, order[i], {}, hasCb)
         IN  IF r.ret = "CRASH"
             THEN [pm |-> r.pm, ret |-> r.ret, cb |-> cb \o r.cb, nodes |-> nodes]
             ELSE checkAllContinuing(r.pm, order, i + 1, tryToContinue, hasCb,
                           IF r.pm[order[i]].dependenciesExists = "true"
                           THEN Append(nodes, order[i]) ELSE nodes,
                           cb \o r.cb)

\* First step (lines 708-727), from the i-th record of the iteration on:
\* [pm, ret, cb, nodes]; nodes are the names that got a graph node, in the
\* order of their graphId.  ret is "SUCCESS" when the loop ran to its end.
RECURSIVE checkAll(_, _, _, _, _, _, _)
checkAll(pm, order, i, tryToContinue, hasCb, nodes, cb) ==
    IF i > Len(order) THEN [pm |-> pm, ret |-> "SUCCESS", cb |-> cb, nodes |-> nodes]
    ELSE IF pm[order[i]].null THEN [pm |-> pm, ret |-> "CRASH", cb |-> cb, nodes |-> nodes]
    ELSE LET r == checkDependencies(pm, order[i], {}, hasCb)
         IN  IF r.ret = "CRASH" \/ (~tryToContinue /\ r.ret # "SUCCESS")
             THEN [pm |-> r.pm, ret |-> r.ret, cb |-> cb \o r.cb, nodes |-> nodes]
             ELSE checkAll(r.pm, order, i + 1, tryToContinue, hasCb,
                           IF r.pm[order[i]].dependenciesExists = "true"
                           THEN Append(nodes, order[i]) ELSE nodes,
                           cb \o r.cb)

\* Fault: the nodes without the second loop, their parentNodes left empty
NodeListWithoutParents(pm, nodes) ==
    [k \in DOMAIN nodes |-> [name |-> nodes[k], parentNodes |-> <<>>]]

\* the node of every record that has a graphId, with the graphIds of its
\* dependencies as parents (lines 730-738); a dependency without a graphId
\* gives the parent index 0 (-1 there)
NodeList(pm, nodes) ==
    [k \in DOMAIN nodes |->
        [name |-> nodes[k],
         parentNodes |-> [d \in DOMAIN pm[nodes[k]].info.dependencies |->
                            IndexOf(nodes, pm[nodes[k]].info.dependencies[d].name)]]]

\* a parent that is no node of the list: pluginsMap[name] of a missing
\* record is a null pointer, and _nodeList[-1] is outside the list
BadParent(nodeList) ==
    \E k \in DOMAIN nodeList :
        \E d \in DOMAIN nodeList[k].parentNodes : nodeList[k].parentNodes[d] = 0

\* lines 766-767: "" when there is nothing to call, else what the call
\* pluginsMap.at(mainPluginName)->iplugin->mainPluginExec() does
MainExec(pm, main) ==
    IF main = "" THEN "none"
    ELSE IF main \notin DOMAIN pm THEN "out_of_range"
    ELSE IF pm[main].null \/ ~pm[main].iplugin THEN "CRASH"
    ELSE "called"

loadPlugins(tryToContinue, hasCb, order) ==
    LET c == checkAll(pluginsMap, order, 1, tryToContinue, hasCb, <<>>, <<>>)
        nodeList == NodeList(c.pm, c.nodes)
        t == topologicalSort(nodeList)
        l == loadPluginsInOrder(c.pm, t.list)
        m == MainExec(l.pm, mainPluginName)
    IN  IF c.ret # "SUCCESS"
        THEN Result(c.pm, loadOrderList, locations, mainPluginName, c.ret, c.cb, <<>>)
        ELSE IF BadParent(nodeList)
        THEN Result(c.pm, loadOrderList, locations, mainPluginName, "CRASH", c.cb, <<>>)
        ELSE IF t.error
        THEN Result(c.pm, <<>>, locations, mainPluginName, "LOAD_DEPENDENCY_CYCLE",
                    c.cb \o Fire(hasCb, "LOAD_DEPENDENCY_CYCLE", 0), <<>>)
        ELSE Result(l.pm, t.list, locations, mainPluginName,
                    IF m \in {"none", "called"} THEN "SUCCESS" ELSE m,
                    c.cb,
                    l.calls \o (IF m = "called"
                                THEN << <<"mainPluginExec", mainPluginName>> >>
                                ELSE <<>>))

(***************************************************************************)
(* PlugMgrPrivate::unloadPlugin and unloadPluginsInOrder                   *)
(***************************************************************************)
\* the sets of library handles that refuse to close during one call, among
\* the handles the records of the map hold
StuckSets ==
    {S \in SUBSET {n \in DOMAIN pluginsMap : ~pluginsMap[n].null} :
        Cardinality(S) <= MaxStuck}

\* Plugin::~Plugin on the record p of the name n: the steps it takes, the
\* call of the plugin, the release of the instance and the unloading of the
\* library handle
Plugin_destructor(p, n) ==
    IF p.libLoaded
    THEN (IF p.iplugin THEN << <<"aboutToBeUnloaded", n>> >> ELSE <<>>)
         \o << <<"iplugin.reset", n>>, <<"lib.unload", n>> >>
    ELSE <<>>

\* the calls of the plugin among the steps
PluginCalls(steps) == SelectSeq(steps, LAMBDA s : s[1] = "aboutToBeUnloaded")

\* Fault: the handle unloaded and the PluginPtr reset with the instance
\* still held by the record
PlugMgrPrivate_unloadPluginKeepingInstance(pm, n, stuck) ==
    LET released == [pm[n] EXCEPT !.libLoaded = n \in stuck]
        steps == (IF pm[n].iplugin THEN << <<"aboutToBeUnloaded", n>> >> ELSE <<>>)
                 \o << <<"lib.unload", n>> >> \o Plugin_destructor(released, n)
    IN  [pm |-> [pm EXCEPT ![n] = NullPtr],
         steps |-> steps,
         calls |-> PluginCalls(steps),
         ok |-> ~released.libLoaded]

\* Fault: the library handle unloaded before the plugin is told and its
\* instance released
PlugMgrPrivate_unloadPluginHandleFirst(pm, n, stuck) ==
    LET released == [pm[n] EXCEPT !.iplugin = FALSE, !.libLoaded = n \in stuck]
        steps == << <<"lib.unload", n>> >>
                 \o (IF pm[n].iplugin
                     THEN << <<"aboutToBeUnloaded", n>>, <<"iplugin.reset", n>> >>
                     ELSE <<>>)
                 \o Plugin_destructor(released, n)
    IN  [pm |-> [pm EXCEPT ![n] = NullPtr],
         steps |-> steps,
         calls |-> PluginCalls(steps),
         ok |-> ~released.libLoaded]

\* aboutToBeUnloaded() on the instance if there is one, the instance
\* released, the handle unloaded, the PluginPtr reset: [pm, calls, ok].
\* The pointer must not be null.
\* plugin.reset() destroys the Plugin, the map holding its only reference.
PlugMgrPrivate_unloadPlugin(pm, n, stuck) ==
    LET released == [pm[n] EXCEPT !.iplugin = FALSE, !.libLoaded = n \in stuck]
        steps == (IF pm[n].iplugin
                  THEN << <<"aboutToBeUnloaded", n>>, <<"iplugin.reset", n>> >>
                  ELSE <<>>)
                 \o << <<"lib.unload", n>> >> \o Plugin_destructor(released, n)
    IN  [pm |-> [pm EXCEPT ![n] = NullPtr],
         steps |-> steps,
         calls |-> PluginCalls(steps),
         ok |-> ~released.libLoaded]

\* one of the two loops of unloadPluginsInOrder over the names of list:
\* [pm, calls, ok, crash].  pluginsMap[name] of a name that has no record
\* inserts a null pointer, which unloadPlugin dereferences.
RECURSIVE unloadEach(_, _, _)
unloadEach(pm, list, stuck) ==
    IF list = <<>> THEN [pm |-> pm, calls |-> <<>>, ok |-> TRUE, crash |-> FALSE]
    ELSE IF Head(list) \notin DOMAIN pm
    THEN [pm |-> Put(pm, Head(list), NullPtr), calls |-> <<>>, ok |-> TRUE, crash |-> TRUE]
    ELSE IF pm[Head(list)].null
    THEN [pm |-> pm, calls |-> <<>>, ok |-> TRUE, crash |-> TRUE]
    ELSE LET u == PlugMgrPrivate_unloadPlugin(pm, Head(list), stuck)
             rest == unloadEach(Erase(u.pm, Head(list)), Tail(list), stuck)
         IN  [pm |-> rest.pm, calls |-> u.calls \o rest.calls,
              ok |-> u.ok /\ rest.ok, crash |-> rest.crash]

\* the records the first loop leaves, in the order the second loop takes them
Stragglers == DOMAIN pluginsMap \ Range(loadOrderList)

\* Fault: the first loop walking the load order from its beginning
unloadPluginsInOrderForward(stuck, rest) ==
    LET a == unloadEach(pluginsMap, loadOrderList, stuck)
        b == unloadEach(a.pm, rest, stuck)
    IN  IF a.crash
        THEN [pm |-> a.pm, loc |-> locations, calls |-> a.calls, ok |-> FALSE, crash |-> TRUE]
        ELSE IF b.crash
        THEN [pm |-> b.pm, loc |-> locations, calls |-> a.calls \o b.calls,
              ok |-> FALSE, crash |-> TRUE]
        ELSE [pm |-> b.pm, loc |-> <<>>, calls |-> a.calls \o b.calls,
              ok |-> a.ok /\ b.ok, crash |-> FALSE]

\* [pm, loc, calls, ok, crash]
unloadPluginsInOrder(stuck, rest) ==
    LET a == unloadEach(pluginsMap, Reverse(loadOrderList), stuck)
        b == unloadEach(a.pm, rest, stuck)
    IN  IF a.crash
        THEN [pm |-> a.pm, loc |-> locations, calls |-> a.calls, ok |-> FALSE, crash |-> TRUE]
        ELSE IF b.crash
        THEN [pm |-> b.pm, loc |-> locations, calls |-> a.calls \o b.calls,
              ok |-> FALSE, crash |-> TRUE]
        ELSE [pm |-> b.pm, loc |-> <<>>, calls |-> a.calls \o b.calls,
              ok |-> a.ok /\ b.ok, crash |-> FALSE]

(***************************************************************************)
(* PluginManager::unloadPlugins                                            *)
(***************************************************************************)
unloadPlugins(hasCb, stuck, rest) ==
    LET u == unloadPluginsInOrder(stuck, rest)
    IN  IF u.crash
        THEN Result(u.pm, loadOrderList, u.loc, mainPluginName, "CRASH", <<>>, u.calls)
        ELSE IF ~u.ok
        THEN Result(u.pm, loadOrderList, u.loc, mainPluginName, "UNLOAD_NOT_ALL",
                    Fire(hasCb, "UNLOAD_NOT_ALL", 0), u.calls)
        ELSE Result(u.pm, loadOrderList, u.loc, mainPluginName, "SUCCESS", <<>>, u.calls)

(***************************************************************************)
(* PluginManager::loadPlugin and loadPluginFromPath                        *)
(***************************************************************************)
\* Fault: the call without the test of plugin->lib.isLoaded()
loadPluginReloading(pluginName) ==
    LET c == checkDependencies(pluginsMap, pluginName, {}, FALSE)
        l == PlugMgrPrivate_loadPlugin(c.pm, pluginName)
    IN  IF pluginName \notin DOMAIN pluginsMap
        THEN Result(pluginsMap, loadOrderList, locations, mainPluginName, "false", <<>>, <<>>)
        ELSE IF pluginsMap[pluginName].null
        THEN Result(pluginsMap, loadOrderList, locations, mainPluginName, "CRASH", <<>>, <<>>)
        ELSE IF c.ret = "CRASH"
        THEN Result(c.pm, loadOrderList, locations, mainPluginName, "CRASH", <<>>, <<>>)
        ELSE IF c.ret # "SUCCESS"
        THEN Result(c.pm, loadOrderList, locations, mainPluginName, "false", <<>>, <<>>)
        ELSE Result(l.pm, loadOrderList, locations, mainPluginName, "true", <<>>, l.calls)

loadPlugin(pluginName) ==
    LET c == checkDependencies(pluginsMap, pluginName, {}, FALSE)
        l == PlugMgrPrivate_loadPlugin(c.pm, pluginName)
    IN  IF pluginName \notin DOMAIN pluginsMap
        THEN Result(pluginsMap, loadOrderList, locations, mainPluginName, "false", <<>>, <<>>)
        ELSE IF pluginsMap[pluginName].null
        THEN Result(pluginsMap, loadOrderList, locations, mainPluginName, "CRASH", <<>>, <<>>)
        ELSE IF pluginsMap[pluginName].libLoaded
        THEN Result(pluginsMap, loadOrderList, locations, mainPluginName, "true", <<>>, <<>>)
        ELSE IF c.ret = "CRASH"
        THEN Result(c.pm, loadOrderList, locations, mainPluginName, "CRASH", <<>>, <<>>)
        ELSE IF c.ret # "SUCCESS"
        THEN Result(c.pm, loadOrderList, locations, mainPluginName, "false", <<>>, <<>>)
        ELSE Result(l.pm, loadOrderList, locations, mainPluginName, "true", <<>>, l.calls)

\* the path names a library that loads and exports jp_name
loadPluginFromPath(f) ==
    LET pluginName == Files[f].jp_name
        pm == Put(pluginsMap, pluginName, NewPlugin(0, EmptyInfo))
        c == checkDependencies(pm, pluginName, {}, FALSE)
        l == PlugMgrPrivate_loadPlugin(c.pm, pluginName)
    IN  IF pluginName \in DOMAIN pluginsMap /\ pluginsMap[pluginName].null
        THEN Result(pluginsMap, loadOrderList, locations, mainPluginName, "CRASH", <<>>, <<>>)
        ELSE IF pluginName \in DOMAIN pluginsMap /\ pluginsMap[pluginName].libLoaded
        THEN Result(pluginsMap, loadOrderList, locations, mainPluginName, "true", <<>>, <<>>)
        ELSE IF c.ret = "CRASH"
        THEN Result(c.pm, loadOrderList, locations, mainPluginName, "CRASH", <<>>, <<>>)
        ELSE IF c.ret # "SUCCESS"
        THEN Result(c.pm, loadOrderList, locations, mainPluginName, "false", <<>>, <<>>)
        ELSE Result(l.pm, loadOrderList, locations, mainPluginName, "true", <<>>, l.calls)

(***************************************************************************)
(* PluginManager::unloadPlugin                                             *)
(***************************************************************************)
\* lines 1058-1068: [crash, list], the names pushed to dependentPlugins,
\* the map iterated in the order `order`; crash when an entry of the map is
\* a null pointer
RECURSIVE dependentPlugins(_, _, _)
dependentPlugins(pm, order, pluginName) ==
    IF order = <<>> THEN [crash |-> FALSE, list |-> <<>>]
    ELSE LET name == Head(order)
             rest == dependentPlugins(pm, Tail(order), pluginName)
             hits == {d \in DOMAIN pm[name].info.dependencies :
                        /\ pm[name].info.dependencies[d].name = pluginName
                        /\ pm[name].libLoaded}
         IN  IF name \notin DOMAIN pm THEN rest
             ELSE IF pm[name].null THEN [crash |-> TRUE, list |-> <<>>]
             ELSE [crash |-> rest.crash,
                   list |-> [d \in 1..Cardinality(hits) |-> name] \o rest.list]

\* [pm, ret, calls]; `stack` holds the names whose unload is in progress:
\* entering one of them again repeats the same recursion without end
RECURSIVE unloadPluginRec(_, _, _, _, _)
RECURSIVE unloadDependents(_, _, _, _, _)

\* Fault: the loop left after the first of the dependentPlugins
unloadDependentsFirstOnly(pm, deps, stack, stuck, order) ==
    IF deps = <<>> THEN [pm |-> pm, ret |-> "true", calls |-> <<>>]
    ELSE unloadPluginRec(pm, Head(deps), stack, stuck, order)

\* lines 1070-1078, the loop over dependentPlugins
unloadDependents(pm, deps, stack, stuck, order) ==
    IF deps = <<>> THEN [pm |-> pm, ret |-> "true", calls |-> <<>>]
    ELSE LET r == unloadPluginRec(pm, Head(deps), stack, stuck, order)
             rest == unloadDependents(r.pm, Tail(deps), stack, stuck, order)
         IN  IF r.ret # "true" THEN r
             ELSE [pm |-> rest.pm, ret |-> rest.ret, calls |-> r.calls \o rest.calls]

\* Fault: the plugin unloaded without its dependents
unloadPluginAlone(pm, pluginName, stack, stuck, order) ==
    IF pluginName \notin DOMAIN pm THEN [pm |-> pm, ret |-> "false", calls |-> <<>>]
    ELSE IF pm[pluginName].null THEN [pm |-> pm, ret |-> "CRASH", calls |-> <<>>]
    ELSE IF ~pm[pluginName].libLoaded THEN [pm |-> pm, ret |-> "false", calls |-> <<>>]
    ELSE LET u == PlugMgrPrivate_unloadPlugin(pm, pluginName, stuck)
         IN  IF ~u.ok THEN [pm |-> u.pm, ret |-> "false", calls |-> u.calls]
             ELSE [pm |-> Erase(u.pm, pluginName), ret |-> "true", calls |-> u.calls]

unloadPluginRec(pm, pluginName, stack, stuck, order) ==
    IF pluginName \notin DOMAIN pm THEN [pm |-> pm, ret |-> "false", calls |-> <<>>]
    ELSE IF pm[pluginName].null THEN [pm |-> pm, ret |-> "CRASH", calls |-> <<>>]
    ELSE IF ~pm[pluginName].libLoaded THEN [pm |-> pm, ret |-> "false", calls |-> <<>>]
    ELSE IF pluginName \in stack THEN [pm |-> pm, ret |-> "CRASH", calls |-> <<>>]
    ELSE LET deps == dependentPlugins(pm, order, pluginName)
             d == unloadDependents(pm, deps.list, stack \cup {pluginName}, stuck, order)
             u == PlugMgrPrivate_unloadPlugin(d.pm, pluginName, stuck)
         IN  IF deps.crash THEN [pm |-> pm, ret |-> "CRASH", calls |-> <<>>]
             ELSE IF d.ret # "true" THEN d
             ELSE IF ~u.ok THEN [pm |-> u.pm, ret |-> "false", calls |-> d.calls \o u.calls]
             ELSE [pm |-> Erase(u.pm, pluginName), ret |-> "true",
                   calls |-> d.calls \o u.calls]

unloadPlugin(pluginName, stuck, order) ==
    LET r == unloadPluginRec(pluginsMap, pluginName, {}, stuck, order)
    IN  Result(r.pm, loadOrderList, locations, mainPluginName, r.ret, <<>>, r.calls)

(***************************************************************************)
(* PlugMgrPrivate::getNonDepPlugin, which a plugin calls through the       *)
(* function pointer its factory was given: "instance" for a non-null       *)
(* IPlugin pointer, "null" for nullptr, "CRASH" when the call dereferences *)
(* a null PluginPtr (pluginsMap[sender] of a name without entry inserts    *)
(* one).                                                                   *)
(***************************************************************************)
\* std::unordered_map::operator[]: the map after pluginsMap[key] was
\* evaluated, a key without entry getting a null PluginPtr
operatorIndex(pm, key) == IF key \in DOMAIN pm THEN pm ELSE Put(pm, key, NullPtr)

getNonDepPlugin(sender, pluginName) ==
    IF sender \notin DOMAIN pluginsMap \/ pluginsMap[sender].null THEN "CRASH"
    ELSE IF ~pluginsMap[sender].isMainPlugin THEN "null"
    ELSE IF ~hasPlugin(pluginName) THEN "null"
    ELSE IF pluginsMap[pluginName].null THEN "CRASH"
    ELSE IF isPluginLoaded(pluginName) THEN "instance"
    ELSE "null"

(***************************************************************************)
(* PlugMgrPrivate::handleRequest, which a plugin calls through the         *)
(* function pointer its factory was given.  The answer is the code         *)
(* returned ("CRASH" when the call ends the process) with *data and        *)
(* *dataSize as the call leaves them.                                      *)
(***************************************************************************)
\* the request codes of IPlugin; "OTHER" is a code the switch does not know
RequestCodes ==
    {"GET_APPDIRECTORY", "GET_PLUGINAPI", "GET_PLUGINSCOUNT", "GET_PLUGININFO",
     "GET_PLUGINVERSION", "CHECK_PLUGIN", "CHECK_PLUGINLOADED", "OTHER"}

\* *data holding the null pointer
NoData == "nullptr"

\* *data on entry: no name, or a name
DataIn == {NoData} \cup ArgNames

\* *dataSize as the caller left it
Untouched == "untouched"

Answer(ret, data, dataSize) == [ret |-> ret, data |-> data, dataSize |-> dataSize]

\* Fault: the switch entered without the test of dataSize
handleRequestWithoutNullTest(sender, code, data, hasDataSize) ==
    LET target == IF data = NoData THEN sender ELSE data
    IN  IF code = "GET_APPDIRECTORY" THEN Answer("SUCCESS", "appDir", "strlen")
        ELSE IF code = "GET_PLUGINAPI"
        THEN Answer("SUCCESS", ToString(JP_PLUGIN_API), "strlen")
        ELSE IF code = "GET_PLUGINSCOUNT"
        THEN Answer("SUCCESS", ToString(Cardinality(DOMAIN pluginsMap)), "1")
        ELSE IF code \in {"GET_PLUGININFO", "GET_PLUGINVERSION"}
        THEN IF ~hasPlugin(target) THEN Answer("NOT_FOUND", data, Untouched)
             ELSE IF pluginsMap[target].null THEN Answer("CRASH", data, Untouched)
             ELSE IF code = "GET_PLUGININFO"
             THEN Answer("SUCCESS", pluginsMap[target].info.name, "1")
             ELSE Answer("SUCCESS", ToString(pluginsMap[target].info.version), "strlen")
        ELSE IF code = "CHECK_PLUGIN"
        THEN IF data = NoData THEN Answer("CRASH", data, Untouched)
             ELSE IF hasPlugin(data) THEN Answer("RESULT_TRUE", data, Untouched)
             ELSE Answer("RESULT_FALSE", data, Untouched)
        ELSE IF code = "CHECK_PLUGINLOADED"
        THEN IF data = NoData THEN Answer("CRASH", data, Untouched)
             ELSE IF hasPlugin(data) /\ pluginsMap[data].null
             THEN Answer("CRASH", data, Untouched)
             ELSE IF isPluginLoaded(data) THEN Answer("RESULT_TRUE", data, Untouched)
             ELSE Answer("RESULT_FALSE", data, Untouched)
        ELSE Answer("UNKNOWN_REQUEST", data, Untouched)

\* sender is the jp_name of the plugin that asks; hasDataSize is FALSE when
\* the dataSize pointer is null.  With std::string(nullptr), the name built
\* from a null *data, and with pluginsMap[name]-> on a null PluginPtr the
\* call returns no code.
handleRequest(sender, code, data, hasDataSize) ==
    LET target == IF data = NoData THEN sender ELSE data
    IN  IF ~hasDataSize THEN Answer("DATASIZE_NULL", data, Untouched)
        ELSE IF code = "GET_APPDIRECTORY" THEN Answer("SUCCESS", "appDir", "strlen")
        ELSE IF code = "GET_PLUGINAPI"
        THEN Answer("SUCCESS", ToString(JP_PLUGIN_API), "strlen")
        ELSE IF code = "GET_PLUGINSCOUNT"
        THEN Answer("SUCCESS", ToString(Cardinality(DOMAIN pluginsMap)), "1")
        ELSE IF code \in {"GET_PLUGININFO", "GET_PLUGINVERSION"}
        THEN IF ~hasPlugin(target) THEN Answer("NOT_FOUND", data, Untouched)
             ELSE IF pluginsMap[target].null THEN Answer("CRASH", data, Untouched)
             ELSE IF code = "GET_PLUGININFO"
             THEN Answer("SUCCESS", pluginsMap[target].info.name, "1")
             ELSE Answer("SUCCESS", ToString(pluginsMap[target].info.version), "strlen")
        ELSE IF code = "CHECK_PLUGIN"
        THEN IF data = NoData THEN Answer("CRASH", data, Untouched)
             ELSE IF hasPlugin(data) THEN Answer("RESULT_TRUE", data, Untouched)
             ELSE Answer("RESULT_FALSE", data, Untouched)
        ELSE IF code = "CHECK_PLUGINLOADED"
        THEN IF data = NoData THEN Answer("CRASH", data, Untouched)
             ELSE IF hasPlugin(data) /\ pluginsMap[data].null
             THEN Answer("CRASH", data, Untouched)
             ELSE IF isPluginLoaded(data) THEN Answer("RESULT_TRUE", data, Untouched)
             ELSE Answer("RESULT_FALSE", data, Untouched)
        ELSE Answer("UNKNOWN_REQUEST", data, Untouched)

\* no request was sent yet
NoReply == [sender |-> "", code |-> "", dataIn |-> NoData, hasDataSize |-> FALSE,
            ret |-> "", data |-> NoData, dataSize |-> Untouched]

\* no Graph object
NoGraph == [nodeList |-> <<>>, sorted |-> FALSE, error |-> FALSE, list |-> <<>>]

\* the manager after construction
InitManager ==
    /\ pluginsMap = << >>
    /\ loadOrderList = <<>>
    /\ locations = <<>>
    /\ mainPluginName = ""
    /\ status = "running"
    /\ liveOrder = <<>>
    /\ ncalls = 0
    /\ last = Call("none", "", FALSE, "SUCCESS", <<>>, <<>>)
    /\ reply = NoReply

Init ==
    /\ depTable \in DepTables
    /\ InitManager
    /\ graph = NoGraph

(***************************************************************************)
(* The actions: one per API call.                                          *)
(***************************************************************************)
Apply(op, arg, flag, r) ==
    /\ status = "running"
    /\ ncalls < MaxCalls
    /\ ncalls' = ncalls + 1
    /\ pluginsMap' = r.pm
    /\ loadOrderList' = r.lol
    /\ locations' = r.loc
    /\ mainPluginName' = r.main
    /\ status' = IF r.ret = "CRASH" THEN "crashed" ELSE "running"
    /\ liveOrder' = Live(liveOrder, r.calls)
    /\ last' = Call(op, arg, flag, r.ret, r.cb, r.calls)
    /\ UNCHANGED <<depTable, reply, graph>>

SearchForPlugins ==
    /\ status = "running" /\ ncalls < MaxCalls
    /\ \E dir \in Dirs, ok \in BOOLEAN :
          \E r \in {searchForPlugins(dir, listing, TRUE) :
                       listing \in {l \in DirListings[dir] : l.ok = ok}} :
             Apply("searchForPlugins", dir, ok, r)

RegisterMainPlugin ==
    \E name \in ArgNames :
         Apply("registerMainPlugin", name, FALSE, registerMainPlugin(name))

\* the map is iterated in any order
LoadPlugins ==
    /\ status = "running" /\ ncalls < MaxCalls
    /\ \E tryToContinue \in BOOLEAN :
       \E r \in {loadPlugins(tryToContinue, TRUE, order) :
                    order \in Perms(DOMAIN pluginsMap)} :
          Apply("loadPlugins", "", tryToContinue, r)

UnloadPlugins ==
    /\ status = "running" /\ ncalls < MaxCalls
    /\ \E r \in {unloadPlugins(TRUE, stuck, rest) :
                 stuck \in StuckSets, rest \in Perms(Stragglers)} :
       Apply("unloadPlugins", "", FALSE, r)

LoadPlugin ==
    \E name \in ArgNames :
         Apply("loadPlugin", name, FALSE, loadPlugin(name))

LoadPluginFromPath ==
    \E f \in {f \in FileIds : Files[f].isPlugin /\ Files[f].jp_name \in Keys} :
         Apply("loadPluginFromPath", Files[f].jp_name, FALSE, loadPluginFromPath(f))

UnloadPlugin ==
    /\ status = "running" /\ ncalls < MaxCalls
    /\ \E name \in ArgNames :
       \E r \in {unloadPlugin(name, stuck, order) :
                    stuck \in StuckSets, order \in Perms(DOMAIN pluginsMap)} :
          Apply("unloadPlugin", name, FALSE, r)

\* getNonDepPlugin called with one of the sender names of senders:
\* pluginsMap[sender] is evaluated first, and the call changes nothing else
\* unless it ends the process
GetNonDepPluginAs(senders) ==
    /\ status = "running"
    /\ \E sender \in senders, pluginName \in ArgNames :
          /\ pluginsMap' = operatorIndex(pluginsMap, sender)
          /\ status' = IF getNonDepPlugin(sender, pluginName) = "CRASH"
                       THEN "crashed" ELSE "running"
    /\ UNCHANGED <<depTable, loadOrderList, locations, mainPluginName,
                   liveOrder, ncalls, last, reply, graph>>

\* a plugin that holds an instance asks for the instance of another one
\* under its own name
GetNonDepPlugin ==
    GetNonDepPluginAs({n \in DOMAIN pluginsMap : Instance(pluginsMap, n)})

\* a plugin that holds an instance asks under its own name or under a name
\* that has no entry ("Z")
GetNonDepPluginAnySender ==
    /\ \E n \in DOMAIN pluginsMap : Instance(pluginsMap, n)
    /\ GetNonDepPluginAs({n \in DOMAIN pluginsMap : Instance(pluginsMap, n)} \cup {"Z"})

\* a plugin that holds an instance sends a request to the manager; the
\* call changes nothing in the manager unless it ends the process
HandleRequest ==
    /\ status = "running"
    /\ \E sender \in {n \in DOMAIN pluginsMap : Instance(pluginsMap, n)},
          code \in RequestCodes, data \in DataIn, hasDataSize \in BOOLEAN :
          \E a \in {handleRequest(sender, code, data, hasDataSize)} :
             /\ reply' = [sender |-> sender, code |-> code, dataIn |-> data,
                          hasDataSize |-> hasDataSize, ret |-> a.ret,
                          data |-> a.data, dataSize |-> a.dataSize]
             /\ status' = IF a.ret = "CRASH" THEN "crashed" ELSE "running"
    /\ UNCHANGED <<depTable, pluginsMap, loadOrderList, locations, mainPluginName,
                   liveOrder, ncalls, last, graph>>

Next ==
    \/ SearchForPlugins
    \/ RegisterMainPlugin
    \/ LoadPlugins
    \/ UnloadPlugins
    \/ LoadPlugin
    \/ LoadPluginFromPath
    \/ UnloadPlugin
    \/ GetNonDepPlugin

Spec == Init /\ [][Next]_vars

(***************************************************************************)
(* A request of a plugin: the manager is driven by API calls, MaxSetup of  *)
(* them at most, until a plugin sends a request; the run is followed up to *)
(* the answer.                                                             *)
(***************************************************************************)
\* no request was sent and an API call may still be made
Setup == reply = NoReply /\ ncalls < MaxSetup

RequestNext ==
    \/ Setup /\ SearchForPlugins
    \/ Setup /\ LoadPlugins
    \/ Setup /\ UnloadPlugin
    \/ reply = NoReply /\ GetNonDepPluginAnySender
    \/ reply = NoReply /\ HandleRequest

RequestSpec == Init /\ [][RequestNext]_vars

(***************************************************************************)
(* A Graph on its own: constructed from any node list, then sorted once    *)
(* (loadPlugins builds a new Graph for every sort).                        *)
(***************************************************************************)
\* the lists of n different elements of S at most
ListsUpTo(S, n) == UNION {Perms(T) : T \in {U \in SUBSET S : Cardinality(U) <= n}}

\* the values of parentNodes over the nodes S: MaxParents different parents
\* at most, in any order, or one parent listed twice
ParentLists(S) == ListsUpTo(S, MaxParents) \cup {<<p, p>> : p \in S}

\* the node list of the nodes named by their place, with the parents given
NodeListOf(parents) ==
    [k \in DOMAIN parents |-> [name |-> k, parentNodes |-> parents[k]]]

\* a Graph of MaxNodes nodes at most, the parents of each among the nodes
\* of the list
InitGraph ==
    /\ depTable = << >>
    /\ InitManager
    /\ \E n \in 1..MaxNodes :
          \E parents \in [1..n -> ParentLists(1..n)] :
             graph = [nodeList |-> NodeListOf(parents), sorted |-> FALSE,
                      error |-> FALSE, list |-> <<>>]

\* Graph::topologicalSort(error) on the Graph
TopologicalSort ==
    /\ ~graph.sorted
    /\ \E t \in {topologicalSort(graph.nodeList)} :
          graph' = [graph EXCEPT !.sorted = TRUE, !.error = t.error, !.list = t.list]
    /\ UNCHANGED <<depTable, pluginsMap, loadOrderList, locations, mainPluginName,
                   status, liveOrder, ncalls, last, reply>>

GraphNext == TopologicalSort

GraphSpec == InitGraph /\ [][GraphNext]_vars

(***************************************************************************)
(* Vocabulary of the properties.                                           *)
(***************************************************************************)
\* the records of the Registry: the keys that hold a Plugin
Records == {n \in DOMAIN pluginsMap : ~pluginsMap[n].null}

\* the names of the dependencies a record declares
DepNames(n) == {pluginsMap[n].info.dependencies[d].name :
                   d \in DOMAIN pluginsMap[n].info.dependencies}

\* the positions of the plugin call <<what, n>> in the last API call
CallsAt(what, n) == {i \in DOMAIN last.calls : last.calls[i] = <<what, n>>}

\* the plugins on which the last API call made the plugin call `what`, in order
RECURSIVE Called(_, _)
Called(calls, what) ==
    IF calls = <<>> THEN <<>>
    ELSE IF Head(calls)[1] = what THEN <<Head(calls)[2]>> \o Called(Tail(calls), what)
    ELSE Called(Tail(calls), what)

(***************************************************************************)
(* C1: within one loadPlugins call, before the factory and loaded() of a   *)
(* plugin P are invoked, loaded() was invoked (and has returned, calls     *)
(* being sequential) on every dependency P declares.                       *)
(***************************************************************************)
C1_DependenciesLoadedFirst ==
    last.op = "loadPlugins" =>
        \A n \in Records :
            \A i \in CallsAt("create", n) \cup CallsAt("loaded", n) :
                \A d \in DepNames(n) :
                    \E j \in CallsAt("loaded", d) : j < i

\* a loadPlugins call has loaded a plugin that declares two dependencies
C1_Witness ==
    /\ last.op = "loadPlugins"
    /\ \E n \in Records :
          /\ CallsAt("loaded", n) # {}
          /\ Cardinality(DepNames(n)) = 2

(***************************************************************************)
(* C2: after a loadPlugins call that returned SUCCESS, every dependency a  *)
(* plugin of the stored load order declares stands in the load order       *)
(* before it, and no name stands in it twice.                              *)
(***************************************************************************)
C2_LoadOrderRespectsDAG ==
    (last.op = "loadPlugins" /\ last.ret = "SUCCESS") =>
        /\ \A i, j \in DOMAIN loadOrderList :
              i # j => loadOrderList[i] # loadOrderList[j]
        /\ \A i \in DOMAIN loadOrderList :
              /\ loadOrderList[i] \in Records
              /\ \A d \in DepNames(loadOrderList[i]) :
                    \E j \in DOMAIN loadOrderList : j < i /\ loadOrderList[j] = d

\* a load order of three plugins, its last one with dependencies
C2_Witness ==
    /\ last.op = "loadPlugins"
    /\ last.ret = "SUCCESS"
    /\ Len(loadOrderList) = 3
    /\ DepNames(loadOrderList[3]) # {}

(***************************************************************************)
(* C3: between completed API calls, a record with an instance has every    *)
(* dependency it declares in the Registry, with an instance too.           *)
(***************************************************************************)
C3_LiveDependencies ==
    status = "running" =>
        \A n \in Records :
            pluginsMap[n].iplugin =>
                \A d \in DepNames(n) : d \in Records /\ pluginsMap[d].iplugin

\* a targeted unload has left a live plugin that declares a dependency
C3_Witness ==
    /\ status = "running"
    /\ last.op = "unloadPlugin"
    /\ last.ret = "true"
    /\ \E n \in Records : pluginsMap[n].iplugin /\ DepNames(n) # {}

(***************************************************************************)
(* C4: unloadPlugins calls aboutToBeUnloaded() on the live plugins in the  *)
(* reverse of the order in which loaded() was called on them.              *)
(***************************************************************************)
C4_ReverseUnload ==
    [][(last'.op = "unloadPlugins" /\ ncalls' = ncalls + 1) =>
          Called(last'.calls, "aboutToBeUnloaded") = Reverse(liveOrder)]_vars

(***************************************************************************)
(* C5: when the dependencies the records declare form a cycle, each edge   *)
(* of it to a record with a compatible version, loadPlugins returns        *)
(* LOAD_DEPENDENCY_CYCLE, fires the callback with it, and calls neither    *)
(* the factory nor loaded() of a plugin of the cycle.                      *)
(***************************************************************************)
\* the records n depends on directly, with a compatible version
Needs(n) ==
    {d \in Records :
        \E k \in DOMAIN pluginsMap[n].info.dependencies :
            /\ pluginsMap[n].info.dependencies[k].name = d
            /\ Compatible(pluginsMap[d].info.version,
                          pluginsMap[n].info.dependencies[k].version)}

\* the records reached from those of S in at most k steps
RECURSIVE Reach(_, _)
Reach(S, k) == IF k = 0 THEN S ELSE Reach(S \cup UNION {Needs(n) : n \in S}, k - 1)

InCycle(n) == n \in Reach(Needs(n), Cardinality(Records))

C5_CycleReported ==
    (last.op = "loadPlugins" /\ \E n \in Records : InCycle(n)) =>
        /\ last.ret = "LOAD_DEPENDENCY_CYCLE"
        /\ \E i \in DOMAIN last.cb : last.cb[i][1] = "LOAD_DEPENDENCY_CYCLE"
        /\ \A n \in Records :
              InCycle(n) => CallsAt("create", n) \cup CallsAt("loaded", n) = {}

(***************************************************************************)
(* C6: loadPlugins(tryToContinue = true), no main plugin registered and    *)
(* the declared dependencies acyclic, returns SUCCESS; afterwards a record *)
(* is LIVE iff its dependency check succeeded, and the records that failed *)
(* are still in the Registry.                                              *)
(***************************************************************************)
\* no name is reached from itself through declared dependencies
Acyclic ==
    \A n \in Records :
        LET RECURSIVE Up(_, _)
            Up(S, k) == IF k = 0 THEN S
                        ELSE Up(S \cup UNION {DepNames(m) \cap Records : m \in S}, k - 1)
        IN  n \notin Up(DepNames(n) \cap Records, Cardinality(Records))

C6_TryToContinue ==
    [][(/\ last'.op = "loadPlugins"
        /\ ncalls' = ncalls + 1
        /\ last'.flag
        /\ mainPluginName = ""
        /\ Acyclic) =>
          /\ last'.ret = "SUCCESS"
          /\ DOMAIN pluginsMap' = DOMAIN pluginsMap
          /\ \A n \in DOMAIN pluginsMap' :
                /\ ~pluginsMap'[n].null
                /\ pluginsMap'[n].iplugin <=> pluginsMap'[n].dependenciesExists = "true"]_vars

(***************************************************************************)
(* C7: a loadPlugins(tryToContinue = false) call that meets a failing      *)
(* dependency check returns the code of a failing check and stops there:   *)
(* one failure reported at most, no factory, loaded() or mainPluginExec()  *)
(* called, the stored load order and every instance as before the call.    *)
(***************************************************************************)
DependencyErrors == {"LOAD_DEPENDENCY_NOT_FOUND", "LOAD_DEPENDENCY_BAD_VERSION"}

\* the records whose dependency check fails, in the current state
FailingChecks ==
    {n \in Records : checkDependencies(pluginsMap, n, {}, TRUE).ret \in DependencyErrors}

C7_AbortOnFirstFailure ==
    [][(/\ last'.op = "loadPlugins"
        /\ ncalls' = ncalls + 1
        /\ ~last'.flag
        /\ last'.ret # "CRASH"
        /\ FailingChecks # {}) =>
          /\ \E n \in FailingChecks :
                last'.ret = checkDependencies(pluginsMap, n, {}, TRUE).ret
          /\ Len(last'.cb) <= 1
          /\ last'.calls = <<>>
          /\ loadOrderList' = loadOrderList
          /\ DOMAIN pluginsMap' = DOMAIN pluginsMap
          /\ \A n \in DOMAIN pluginsMap :
                Instance(pluginsMap', n) <=> Instance(pluginsMap, n)]_vars

\* loadPlugins(false) has stopped at a missing dependency, a load order
\* stored and a plugin live from before
C7_Witness ==
    /\ last.op = "loadPlugins"
    /\ ~last.flag
    /\ last.ret = "LOAD_DEPENDENCY_NOT_FOUND"
    /\ Len(last.cb) = 1
    /\ last.calls = <<>>
    /\ loadOrderList # <<>>
    /\ \E n \in Records : pluginsMap[n].iplugin

(***************************************************************************)
(* C8: checkDependencies on a record whose flag is indeterminate, its      *)
(* first failing dependency being the i-th: when that dependency has no    *)
(* record, the flag becomes false, the callback fires once with            *)
(* LOAD_DEPENDENCY_NOT_FOUND and that code is returned; when it has a      *)
(* record of an incompatible version, the same with                        *)
(* LOAD_DEPENDENCY_BAD_VERSION.                                            *)
(***************************************************************************)
\* the check of the record d succeeds: its flag is true, or it is
\* indeterminate and every dependency has a record of a compatible version
\* whose check succeeds (k bounds the depth: a cycle never succeeds)
RECURSIVE Passes(_, _)
Passes(d, k) ==
    /\ d \in Records
    /\ \/ pluginsMap[d].dependenciesExists = "true"
       \/ /\ pluginsMap[d].dependenciesExists = "indeterminate"
          /\ k > 0
          /\ \A e \in DOMAIN pluginsMap[d].info.dependencies :
                LET dep == pluginsMap[d].info.dependencies[e]
                IN  /\ dep.name \in Records
                    /\ Compatible(pluginsMap[dep.name].info.version, dep.version)
                    /\ Passes(dep.name, k - 1)

\* the check r of the record n has failed with code, as the claim has it
Reported(r, n, code) ==
    /\ r.ret = code
    /\ r.pm[n].dependenciesExists = "false"
    /\ r.cb = << <<code, pluginsMap[n].path>> >>

C9_CachedOutcome ==
    \A n \in Records :
        pluginsMap[n].dependenciesExists # "indeterminate" =>
            LET r == checkDependencies(pluginsMap, n, {}, TRUE)
            IN  /\ r.pm = pluginsMap
                /\ r.ret = IF pluginsMap[n].dependenciesExists = "true" THEN "SUCCESS"
                           ELSE pluginsMap[n].failure

(***************************************************************************)
(* C10: a record whose flag is true keeps it true through every API call   *)
(* that leaves the record in the Registry.                                 *)
(***************************************************************************)
C10_ResolutionMonotonic ==
    [][\A n \in Records :
          (/\ pluginsMap[n].dependenciesExists = "true"
           /\ n \in DOMAIN pluginsMap'
           /\ ~pluginsMap'[n].null) =>
              pluginsMap'[n].dependenciesExists = "true"]_vars

\* a search has met a library named like a record whose flag is true
C10_Witness ==
    /\ last.op = "searchForPlugins"
    /\ \E i \in DOMAIN last.cb :
          /\ last.cb[i][1] = "SEARCH_NAME_ALREADY_EXISTS"
          /\ Files[last.cb[i][2]].jp_name \in Records
          /\ pluginsMap[Files[last.cb[i][2]].jp_name].dependenciesExists = "true"

(***************************************************************************)
(* C11: every name of the stored load order is the name of a record of the *)
(* Registry whose dependenciesExists flag is true.                         *)
(***************************************************************************)
C11_LoadOrderOfResolvedRecords ==
    status = "running" =>
        \A i \in DOMAIN loadOrderList :
            /\ loadOrderList[i] \in Records
            /\ pluginsMap[loadOrderList[i]].dependenciesExists = "true"

(***************************************************************************)
(* C12: between completed API calls a record has an instance if and only   *)
(* if loaded() was called on the plugin of its name and                    *)
(* aboutToBeUnloaded() was not called on it since.                         *)
(***************************************************************************)
\* the names on which loaded() was called and aboutToBeUnloaded() was not
\* called since, from the plugin calls of all API calls so far
LoadedNotUnloaded == Range(liveOrder)

C12_InstanceIffLoaded ==
    status = "running" =>
        \A n \in Records : pluginsMap[n].iplugin <=> n \in LoadedNotUnloaded

\* a library found again after its plugin was loaded and unloaded: a record
\* without instance next to a record with one
C12_Witness ==
    /\ status = "running"
    /\ last.op = "searchForPlugins"
    /\ \E n, m \in Records :
          /\ pluginsMap[n].iplugin
          /\ ~pluginsMap[m].iplugin
          /\ m \notin DOMAIN depTable \/ depTable[m] = <<>>
          /\ pluginsMap[m].dependenciesExists = "indeterminate"
          /\ m \in Range(loadOrderList)

(***************************************************************************)
(* C13: a searchForPlugins call leaves every entry the Registry had as it  *)
(* was, and reports each library it meets under a name that is already a   *)
(* key with SEARCH_NAME_ALREADY_EXISTS, once, without registering it.      *)
(***************************************************************************)
\* how many callbacks of cb are <<code, path>>
Fired(cb, code, path) == Cardinality({i \in DOMAIN cb : cb[i] = <<code, path>>})

C13_NameCollision ==
    [][(last'.op = "searchForPlugins" /\ ncalls' = ncalls + 1) =>
          /\ \A n \in DOMAIN pluginsMap :
                n \in DOMAIN pluginsMap' /\ pluginsMap'[n] = pluginsMap[n]
          /\ last'.flag =>
                \A f \in FilesIn(last'.arg) :
                    (Files[f].isPlugin /\ Files[f].jp_name \in DOMAIN pluginsMap) =>
                        Fired(last'.cb, "SEARCH_NAME_ALREADY_EXISTS", f) = 1
          /\ \A i \in DOMAIN last'.cb :
                last'.cb[i][1] = "SEARCH_NAME_ALREADY_EXISTS" =>
                    LET name == Files[last'.cb[i][2]].jp_name
                    IN  \/ name \in DOMAIN pluginsMap
                        \/ /\ name \in DOMAIN pluginsMap'
                           /\ pluginsMap'[name].path # last'.cb[i][2]]_vars

\* a search has registered a library and rejected another one, named like
\* a record that holds an instance
C13_Witness ==
    /\ last.op = "searchForPlugins"
    /\ last.ret = "SUCCESS"
    /\ \E i \in DOMAIN last.cb :
          /\ last.cb[i][1] = "SEARCH_NAME_ALREADY_EXISTS"
          /\ Instance(pluginsMap, Files[last.cb[i][2]].jp_name)
          /\ pluginsMap[Files[last.cb[i][2]].jp_name].path # last.cb[i][2]

(***************************************************************************)
(* C14: no record of the Registry has metadata with an empty name.         *)
(***************************************************************************)
C14_NoUnnamedRecord ==
    \A n \in Records : pluginsMap[n].info.name # ""

(***************************************************************************)
(* C15: searchForPlugins returns SUCCESS iff the call has registered a     *)
(* library; else SEARCH_LISTFILES_ERROR when the enumeration failed and    *)
(* listed nothing, SEARCH_NOTHING_FOUND otherwise.  A library rejected for *)
(* its name or its metadata is reported through the callback, and every    *)
(* library listed after it is still registered or reported.  Stated of the *)
(* call made in any state from which a call is made, for every answer of   *)
(* the enumeration.                                                        *)
(***************************************************************************)
C15_SearchResult ==
    (status = "running" /\ ncalls < MaxCalls) =>
        \A dir \in Dirs : \A listing \in DirListings[dir] :
          \A r \in {searchForPlugins(dir, listing, TRUE)} :
            LET inserted == DOMAIN r.pm \ DOMAIN pluginsMap
            IN  /\ r.ret = "SUCCESS" <=> inserted # {}
                /\ r.ret # "SUCCESS" =>
                      r.ret = IF ~listing.ok /\ listing.libList = <<>>
                              THEN "SEARCH_LISTFILES_ERROR"
                              ELSE "SEARCH_NOTHING_FOUND"
                /\ \A i \in DOMAIN listing.libList :
                      LET f == listing.libList[i]
                          name == Files[f].jp_name
                      IN  Files[f].isPlugin =>
                            \/ name \in inserted /\ r.pm[name].path = f
                            \/ /\ Fired(r.cb, "SEARCH_NAME_ALREADY_EXISTS", f) = 1
                               /\ ~(name \in inserted /\ r.pm[name].path = f)
                               /\ parseMetadata(f).name # "" \/ name \in DOMAIN pluginsMap
                            \/ /\ Fired(r.cb, "SEARCH_CANNOT_PARSE_METADATA", f) = 1
                               /\ parseMetadata(f).name = ""
                               /\ name \notin DOMAIN r.pm

\* a search of the directory that holds a library named like a record, a
\* new library and one with invalid metadata has registered the new one
C15_Witness ==
    /\ last.op = "searchForPlugins"
    /\ last.ret = "SUCCESS"
    /\ \E i, j \in DOMAIN last.cb :
          /\ last.cb[i][1] = "SEARCH_NAME_ALREADY_EXISTS"
          /\ last.cb[j][1] = "SEARCH_CANNOT_PARSE_METADATA"
    /\ \E n \in Records :
          /\ Files[pluginsMap[n].path].dir = last.arg
          /\ pluginsMap[n].dependenciesExists = "indeterminate"
          /\ ~pluginsMap[n].iplugin

(***************************************************************************)
(* C16: registerMainPlugin(name) returns SUCCESS, sets the main plugin     *)
(* name and the isMainPlugin flag of the record, when no main plugin name  *)
(* is set and the Registry has a record named name; in every other case   *)
(* it returns UNKNOWN_ERROR and changes nothing.                           *)
(***************************************************************************)
C16_RegisterMainPlugin ==
    [][(last'.op = "registerMainPlugin" /\ ncalls' = ncalls + 1) =>
          IF mainPluginName = "" /\ last'.arg \in Records
          THEN /\ last'.ret = "SUCCESS"
               /\ mainPluginName' = last'.arg
               /\ pluginsMap' = [pluginsMap EXCEPT ![last'.arg].isMainPlugin = TRUE]
          ELSE /\ last'.ret = "UNKNOWN_ERROR"
               /\ mainPluginName' = mainPluginName
               /\ pluginsMap' = pluginsMap]_vars

(***************************************************************************)
(* C17: at most one record of the Registry has isMainPlugin true.          *)
(***************************************************************************)
C17_OneMainPlugin ==
    Cardinality({n \in Records : pluginsMap[n].isMainPlugin}) <= 1

\* a registration was refused for a record while another record is the
\* main plugin
C17_Witness ==
    /\ last.op = "registerMainPlugin"
    /\ last.ret = "UNKNOWN_ERROR"
    /\ last.arg \in Records
    /\ \E m \in Records : m # last.arg /\ pluginsMap[m].isMainPlugin

(***************************************************************************)
(* C18: with a main plugin registered, a loadPlugins call calls            *)
(* mainPluginExec() of the main plugin exactly once, after every loaded()  *)
(* of the call.                                                            *)
(***************************************************************************)
C18_MainPluginExecOnce ==
    (last.op = "loadPlugins" /\ mainPluginName # "") =>
        /\ Called(last.calls, "mainPluginExec") = <<mainPluginName>>
        /\ last.calls[Len(last.calls)] = <<"mainPluginExec", mainPluginName>>

(***************************************************************************)
(* C19: for a sender that has a record, getNonDepPlugin(sender, target)    *)
(* returns an instance when the sender's record has isMainPlugin true and  *)
(* the target is live (present, handle loaded, instance non-null), and     *)
(* null in every other case.                                               *)
(***************************************************************************)
C19_MainPluginPrivilege ==
    status = "running" =>
        \A sender \in Records : \A target \in ArgNames :
            getNonDepPlugin(sender, target) =
                IF /\ pluginsMap[sender].isMainPlugin
                   /\ target \in Records
                   /\ pluginsMap[target].libLoaded
                   /\ pluginsMap[target].iplugin
                THEN "instance" ELSE "null"

(***************************************************************************)
(* C20: unloadPlugins unloads every record of the Registry; when it        *)
(* returns the Registry and the locations list are empty, and the result   *)
(* is SUCCESS iff every library handle closed, UNLOAD_NOT_ALL otherwise.   *)
(***************************************************************************)
C20_UnloadPlugins ==
    status = "running" =>
        \A stuck \in StuckSets : \A rest \in Perms(Stragglers) :
            LET r == unloadPlugins(TRUE, stuck, rest)
            IN  /\ r.ret = IF stuck = {} THEN "SUCCESS" ELSE "UNLOAD_NOT_ALL"
                /\ DOMAIN r.pm = {}
                /\ r.loc = <<>>
                /\ \A n \in Records :
                      pluginsMap[n].iplugin =>
                          \E i \in DOMAIN r.calls : r.calls[i] = <<"aboutToBeUnloaded", n>>

(***************************************************************************)
(* C21: unloadPlugin(name) for a record whose library handle is open, no   *)
(* handle refusing to close, returns true, erases name and every record    *)
(* that depends on it (directly or through a chain) from the Registry, and *)
(* calls aboutToBeUnloaded() on each live dependent before name; for a     *)
(* name without entry it returns false and changes nothing.                *)
(***************************************************************************)
\* S and the records that reach a name of S through at most k declared
\* dependencies
RECURSIVE DependentsOf(_, _)
DependentsOf(S, k) ==
    IF k = 0 THEN S
    ELSE DependentsOf(S \cup {n \in Records : DepNames(n) \cap S # {}}, k - 1)

Dependents(name) == DependentsOf({name}, Cardinality(Records)) \ {name}

C21_UnloadPlugin ==
    status = "running" =>
        \A name \in ArgNames : \A order \in Perms(DOMAIN pluginsMap) :
            \A r \in {unloadPlugin(name, {}, order)} :
                /\ (name \in Records /\ pluginsMap[name].libLoaded) =>
                      /\ r.ret = "true"
                      /\ DOMAIN r.pm = DOMAIN pluginsMap \ (Dependents(name) \cup {name})
                      /\ \A d \in Dependents(name) :
                            Instance(pluginsMap, d) =>
                                \E i \in DOMAIN r.calls :
                                    /\ r.calls[i] = <<"aboutToBeUnloaded", d>>
                                    /\ Instance(pluginsMap, name) =>
                                          \E j \in DOMAIN r.calls :
                                              /\ j > i
                                              /\ r.calls[j] = <<"aboutToBeUnloaded", name>>
                /\ name \notin DOMAIN pluginsMap =>
                      /\ r.ret = "false"
                      /\ r.pm = pluginsMap
                      /\ r.calls = <<>>

(***************************************************************************)
(* C22: after a loadPlugin(n) call that returned true, a second            *)
(* loadPlugin(n) returns true again, calls neither the factory nor         *)
(* loaded(), and leaves the Registry and the rest of the manager as the    *)
(* first call left them.                                                   *)
(***************************************************************************)
C22_LoadPluginIdempotent ==
    (status = "running" /\ last.op = "loadPlugin" /\ last.ret = "true") =>
        \A r \in {loadPlugin(last.arg)} :
            /\ r.ret = "true"
            /\ r.calls = <<>>
            /\ r.pm = pluginsMap
            /\ r.lol = loadOrderList
            /\ r.loc = locations
            /\ r.main = mainPluginName

\* loadPlugin has returned true for a live plugin that declares dependencies
C22_Witness ==
    /\ status = "running"
    /\ last.op = "loadPlugin"
    /\ last.ret = "true"
    /\ Instance(pluginsMap, last.arg)
    /\ DepNames(last.arg) # {}

(***************************************************************************)
(* C23: loadPlugin(name) on a record that searchForPlugins registered,     *)
(* without instance and with a dependency check that succeeds, calls the   *)
(* factory and loaded(); whenever it returns true the plugin is loaded     *)
(* (isPluginLoaded); it returns false for a name without record and for a  *)
(* record whose dependency check fails.                                    *)
(***************************************************************************)
C23_LoadPlugin ==
    status = "running" =>
        \A name \in ArgNames :
            \A r \in {loadPlugin(name)} :
                /\ r.ret = "true" => Instance(r.pm, name) /\ r.pm[name].libLoaded
                /\ name \notin DOMAIN pluginsMap => r.ret = "false"
                /\ (name \in Records /\ pluginsMap[name].info.name # ""
                                     /\ ~pluginsMap[name].iplugin) =>
                      \A c \in {checkDependencies(pluginsMap, name, {}, FALSE)} :
                          /\ c.ret = "SUCCESS" =>
                                /\ r.ret = "true"
                                /\ r.calls = << <<"create", name>>, <<"loaded", name>> >>
                          /\ c.ret \in DependencyErrors => r.ret = "false"

(***************************************************************************)
(* C24: loadPluginFromPath(path) leaves the jp_name of the library a key   *)
(* of the Registry, and whenever it returns true the plugin of that name   *)
(* is loaded (isPluginLoaded), the name newly registered or not.           *)
(***************************************************************************)
C24_LoadPluginFromPath ==
    status = "running" =>
        \A f \in {g \in FileIds : Files[g].isPlugin /\ Files[g].jp_name \in Keys} :
            \A r \in {loadPluginFromPath(f)} :
                /\ r.ret # "CRASH" => Files[f].jp_name \in DOMAIN r.pm
                /\ r.ret = "true" =>
                      /\ Instance(r.pm, Files[f].jp_name)
                      /\ r.pm[Files[f].jp_name].libLoaded

(***************************************************************************)
(* C25: a loadPlugins call that directly follows a loadPlugins call calls  *)
(* neither the factory nor loaded() of a plugin that is live already.      *)
(***************************************************************************)
C25_LoadPluginsIdempotent ==
    [][(/\ last.op = "loadPlugins"
        /\ last'.op = "loadPlugins"
        /\ ncalls' = ncalls + 1) =>
          \A n \in Records :
              pluginsMap[n].iplugin =>
                  \A i \in DOMAIN last'.calls :
                      last'.calls[i] \notin {<<"create", n>>, <<"loaded", n>>}]_vars

(***************************************************************************)
(* C26: whenever an unloadPlugins or unloadPlugin call (the unloads of     *)
(* dependents it makes included) calls aboutToBeUnloaded() on a plugin,    *)
(* every dependency that plugin declares held an instance when the API     *)
(* call began and aboutToBeUnloaded() was not yet called on it: plugin     *)
(* calls being sequential, the dependency is live during the whole call.   *)
(***************************************************************************)
C26_DependenciesLiveAtUnload ==
    [][(/\ last'.op \in {"unloadPlugins", "unloadPlugin"}
        /\ ncalls' = ncalls + 1) =>
          \A i \in DOMAIN last'.calls :
              last'.calls[i][1] = "aboutToBeUnloaded" =>
                  \A d \in DepNames(last'.calls[i][2]) :
                      /\ Instance(pluginsMap, d)
                      /\ \A j \in 1..i :
                            last'.calls[j] # <<"aboutToBeUnloaded", d>>]_vars

\* one call has unloaded a plugin and, after it, the dependency it declares
C26_Witness ==
    /\ last.op \in {"unloadPlugins", "unloadPlugin"}
    /\ \E i, j \in DOMAIN last.calls :
          /\ i < j
          /\ last.calls[i][1] = "aboutToBeUnloaded"
          /\ last.calls[j][1] = "aboutToBeUnloaded"
          /\ last.calls[i][2] \in DOMAIN depTable
          /\ \E k \in DOMAIN depTable[last.calls[i][2]] :
                depTable[last.calls[i][2]][k].name = last.calls[j][2]

(***************************************************************************)
(* C27: a request sent with a null dataSize is answered DATASIZE_NULL,     *)
(* whatever its code, with *data as it was on entry and the manager        *)
(* unchanged.                                                              *)
(***************************************************************************)
C27_DataSizeNull ==
    [][(reply' # reply /\ ~reply'.hasDataSize) =>
          /\ reply'.ret = "DATASIZE_NULL"
          /\ reply'.data = reply'.dataIn
          /\ reply'.dataSize = Untouched
          /\ UNCHANGED <<pluginsMap, loadOrderList, locations, mainPluginName,
                         status, liveOrder>>]_vars

\* a request with a null dataSize about a key whose PluginPtr is null, of a
\* code that would dereference it
C27_Witness ==
    /\ reply.ret = "DATASIZE_NULL"
    /\ reply.code = "CHECK_PLUGINLOADED"
    /\ reply.dataIn \in DOMAIN pluginsMap
    /\ pluginsMap[reply.dataIn].null

(***************************************************************************)
(* C28: with a non-null dataSize, CHECK_PLUGIN is answered RESULT_TRUE     *)
(* when *data names a record of the Registry and RESULT_FALSE otherwise,   *)
(* CHECK_PLUGINLOADED is answered RESULT_TRUE when *data names a loaded    *)
(* plugin and RESULT_FALSE otherwise, and a code the manager does not know *)
(* is answered UNKNOWN_REQUEST.                                            *)
(***************************************************************************)
C28_CheckRequests ==
    (reply # NoReply /\ reply.hasDataSize) =>
        /\ reply.code = "CHECK_PLUGIN" =>
              reply.ret = IF reply.dataIn \in Records
                          THEN "RESULT_TRUE" ELSE "RESULT_FALSE"
        /\ reply.code = "CHECK_PLUGINLOADED" =>
              reply.ret = IF /\ reply.dataIn \in Records
                             /\ pluginsMap[reply.dataIn].libLoaded
                             /\ pluginsMap[reply.dataIn].iplugin
                          THEN "RESULT_TRUE" ELSE "RESULT_FALSE"
        /\ reply.code = "OTHER" => reply.ret = "UNKNOWN_REQUEST"

(***************************************************************************)
(* C29: a dependency check that fails on a record leaves its               *)
(* dependenciesExists flag false, also when the failure is that of a       *)
(* dependency of a dependency; and after a loadPlugins(tryToContinue =     *)
(* true) call has returned no record of the Registry has the flag          *)
(* indeterminate.                                                          *)
(***************************************************************************)
C29_FailedCheckUnresolved ==
    status = "running" =>
        /\ \A n \in Records :
              \A r \in {checkDependencies(pluginsMap, n, {}, TRUE)} :
                  r.ret \in DependencyErrors => r.pm[n].dependenciesExists = "false"
        /\ (last.op = "loadPlugins" /\ last.flag) =>
              \A n \in Records : pluginsMap[n].dependenciesExists # "indeterminate"

(***************************************************************************)
(* C30: topologicalSort, run once on a new Graph whose parent edges hold a *)
(* cycle (a node that is its own parent included), returns the empty list  *)
(* and sets the error flag, whatever the order of the nodes.               *)
(***************************************************************************)
\* the nodes reached from those of S through at most k parent edges
RECURSIVE Ancestors(_, _, _)
Ancestors(nodeList, S, k) ==
    IF k = 0 THEN S
    ELSE Ancestors(nodeList,
                   S \cup UNION {Range(nodeList[i].parentNodes) : i \in S}, k - 1)

\* some node is reached from its own parents
HasCycle(nodeList) ==
    \E i \in DOMAIN nodeList :
        i \in Ancestors(nodeList, Range(nodeList[i].parentNodes), Len(nodeList))

C30_CycleDetected ==
    (graph.sorted /\ HasCycle(graph.nodeList)) =>
        /\ graph.error
        /\ graph.list = <<>>

\* a sorted Graph of three nodes: the first one without parents, the second
\* one its child, the last one its own parent
C30_Witness ==
    /\ graph.sorted
    /\ Len(graph.nodeList) = 3
    /\ graph.nodeList[1].parentNodes = <<>>
    /\ graph.nodeList[2].parentNodes = <<1>>
    /\ graph.nodeList[3].parentNodes = <<1, 3>>
    /\ graph.error

RECURSIVE OncePerInstance(_, _)
OncePerInstance(calls, live) ==
    \/ calls = <<>>
    \/ /\ Head(calls)[1] = "create"
       /\ OncePerInstance(Tail(calls), live \cup {Head(calls)[2]})
    \/ /\ Head(calls)[1] = "aboutToBeUnloaded"
       /\ Head(calls)[2] \in live
       /\ OncePerInstance(Tail(calls), live \ {Head(calls)[2]})
    \/ /\ Head(calls)[1] \notin {"create", "aboutToBeUnloaded"}
       /\ OncePerInstance(Tail(calls), live)

C32_UnloadedOnce ==
    [][ncalls' = ncalls + 1 =>
          OncePerInstance(last'.calls,
                          {n \in DOMAIN pluginsMap : Instance(pluginsMap, n)})]_vars

\* a targeted unload of a live plugin whose library handle has refused to
\* close: the record dropped with its handle still loaded
C32_Witness ==
    /\ last.op = "unloadPlugin"
    /\ last.ret = "false"
    /\ last.calls = << <<"aboutToBeUnloaded", last.arg>> >>
    /\ last.arg \in DOMAIN pluginsMap
    /\ pluginsMap[last.arg].null

(***************************************************************************)
(* C33: on every unload path the steps taken for one record come in the    *)
(* order aboutToBeUnloaded() on the instance if there is one, the release  *)
(* of the instance, the unloading of the library handle; a record never    *)
(* holds an instance while its library handle is not loaded.               *)
(***************************************************************************)
\* steps are in the order of the claim for a record that held an instance
\* (hadInstance) or held none
UnloadOrdered(steps, hadInstance) ==
    /\ \A i, j \in 1..Len(steps) :
           i < j /\ steps[i][1] \in {"iplugin.reset", "lib.unload"}
               => steps[j][1] # "aboutToBeUnloaded"
    /\ hadInstance =>
           /\ Len(steps) >= 3
           /\ steps[1][1] = "aboutToBeUnloaded"
           /\ steps[2][1] = "iplugin.reset"
           /\ steps[3][1] = "lib.unload"
    /\ ~hadInstance => \A i \in 1..Len(steps) : steps[i][1] # "aboutToBeUnloaded"
    /\ \E i \in 1..Len(steps) : steps[i][1] = "lib.unload"

C33_UnloadOrder ==
    \A n \in DOMAIN pluginsMap :
        ~pluginsMap[n].null =>
            /\ pluginsMap[n].iplugin => pluginsMap[n].libLoaded
            /\ UnloadOrdered(Plugin_destructor(pluginsMap[n], n), pluginsMap[n].iplugin)
            /\ \A stuck \in {{}, {n}} :
                   UnloadOrdered(PlugMgrPrivate_unloadPlugin(pluginsMap, n, stuck).steps,
                                 pluginsMap[n].iplugin)

\* a targeted unload has told a live plugin and released it, its handle
\* closing, while another record still holds its instance
C33_Witness ==
    /\ last.op = "unloadPlugin"
    /\ last.ret = "true"
    /\ CallsAt("aboutToBeUnloaded", last.arg) # {}
    /\ \E n \in DOMAIN pluginsMap : Instance(pluginsMap, n)

(***************************************************************************)
(* C34: checkDependencies, and with it loadPlugins and loadPlugin, comes   *)
(* to an end on every finite Registry, a cycle among the declared          *)
(* dependencies or a plugin that needs itself included: a loadPlugins or   *)
(* loadPlugin call on a map without an empty entry, no main plugin being   *)
(* registered, returns.                                                    *)
(***************************************************************************)
C34_CheckTerminates ==
    [][(/\ ncalls' = ncalls + 1
        /\ last'.op \in {"loadPlugins", "loadPlugin"}
        /\ \A n \in DOMAIN pluginsMap : ~pluginsMap[n].null
        /\ mainPluginName = "")
           => last'.ret # "CRASH" /\ status' = "running"]_vars

(***************************************************************************)
(* C35: loadPlugins calls mainPluginExec() only on a main plugin that is   *)
(* LIVE; when the registered main plugin has failed its dependency check   *)
(* or is no longer in the Registry, the call dereferences no missing       *)
(* record and no null instance and still returns a ReturnCode (the map     *)
(* holding no empty entry and the declared dependencies no cycle).         *)
(***************************************************************************)
C35_MainExecOnLive ==
    [][(/\ ncalls' = ncalls + 1
        /\ last'.op = "loadPlugins"
        /\ mainPluginName # ""
        /\ \A n \in DOMAIN pluginsMap : ~pluginsMap[n].null
        /\ Acyclic)
           => /\ last'.ret \notin {"CRASH", "out_of_range"}
              /\ status' = "running"
              /\ \A i \in DOMAIN last'.calls :
                    last'.calls[i][1] = "mainPluginExec" =>
                        /\ last'.calls[i][2] = mainPluginName
                        /\ Instance(pluginsMap', mainPluginName)]_vars

(***************************************************************************)
(* C36: when loadPlugins(tryToContinue = true) is called and every         *)
(* dependency a record declares, directly or through its dependencies, is  *)
(* in the Registry with a compatible version, the dependencies holding no  *)
(* cycle, the record is LIVE when the call returns SUCCESS, a record that  *)
(* failed an earlier check for a dependency found since included.          *)
(***************************************************************************)
\* every dependency of n, down to the depth k, has a record of a compatible
\* version (k bounds the depth: a record of a cycle is never satisfied)
RECURSIVE Satisfied(_, _)
Satisfied(n, k) ==
    /\ n \in Records
    /\ k > 0
    /\ \A e \in DOMAIN pluginsMap[n].info.dependencies :
          LET dep == pluginsMap[n].info.dependencies[e]
          IN  /\ dep.name \in Records
              /\ Compatible(pluginsMap[dep.name].info.version, dep.version)
              /\ Satisfied(dep.name, k - 1)

C36_SatisfiedIsLive ==
    [][(/\ ncalls' = ncalls + 1
        /\ last'.op = "loadPlugins"
        /\ last'.flag
        /\ last'.ret = "SUCCESS"
        /\ \A n \in DOMAIN pluginsMap : ~pluginsMap[n].null)
           => \A n \in Records :
                  Satisfied(n, Cardinality(Records)) => Instance(pluginsMap', n)]_vars

(***************************************************************************)
(* C37: in every state between API calls the main-plugin name is not empty *)
(* iff the Registry holds a record under that name with isMainPlugin true; *)
(* once the main plugin was removed by unloadPlugins or unloadPlugin(name) *)
(* the name is empty again and registerMainPlugin succeeds on every plugin *)
(* of the Registry.                                                        *)
(***************************************************************************)
C37_MainPluginName ==
    status = "running" =>
        /\ mainPluginName # "" =>
              /\ mainPluginName \in Records
              /\ pluginsMap[mainPluginName].isMainPlugin
        /\ \A n \in Records : pluginsMap[n].isMainPlugin => n = mainPluginName
        /\ (\A n \in Records : ~pluginsMap[n].isMainPlugin) =>
              \A n \in Records : registerMainPlugin(n).ret = "SUCCESS"

(***************************************************************************)
(* C38: in every reachable state every key of the Registry maps to an      *)
(* existing record; neither unloadPlugins after a targeted unload or       *)
(* called twice, nor unloadPlugin(name) with a library handle that fails   *)
(* to close, nor getNonDepPlugin with a sender name that is not in the     *)
(* Registry inserts or leaves an empty entry.                              *)
(***************************************************************************)
C38_NoEmptyEntry ==
    /\ status = "running" => \A n \in DOMAIN pluginsMap : ~pluginsMap[n].null
    /\ (\E n \in DOMAIN pluginsMap : Instance(pluginsMap, n)) =>
           \A sender \in ArgNames :
               \A n \in DOMAIN operatorIndex(pluginsMap, sender) :
                   n \in DOMAIN pluginsMap /\ ~pluginsMap[n].null

(***************************************************************************)
(* C39: handleRequest, whatever the request code, and getNonDepPlugin,     *)
(* whatever the sender and the target name, known or not, leave the keys   *)
(* of the Registry, the flag and the instance of every record, the stored  *)
(* load order, the locations list and the main-plugin name unchanged.      *)
(***************************************************************************)
\* the steps that are no API call are the calls of the two broker functions
C39_BrokerReadOnly ==
    [][ncalls' = ncalls =>
          /\ DOMAIN pluginsMap' = DOMAIN pluginsMap
          /\ pluginsMap' = pluginsMap
          /\ UNCHANGED <<loadOrderList, locations, mainPluginName>>]_vars

(***************************************************************************)
(* C40: in every state between API calls in which every library handle     *)
(* has closed when asked to (no PluginPtr was left empty), a record whose   *)
(* flag is yes has every dependency it declares in the Registry, with a    *)
(* compatible version and the flag yes: unloadPlugin(name),                *)
(* loadPluginFromPath and a later searchForPlugins leave no yes stale.     *)
(***************************************************************************)
C40_ResolvedStaysTrue ==
    (status = "running" /\ \A k \in DOMAIN pluginsMap : ~pluginsMap[k].null) =>
        \A n \in Records :
            pluginsMap[n].dependenciesExists = "true" =>
                \A e \in DOMAIN pluginsMap[n].info.dependencies :
                    LET dep == pluginsMap[n].info.dependencies[e]
                    IN  /\ dep.name \in Records
                        /\ Compatible(pluginsMap[dep.name].info.version, dep.version)
                        /\ pluginsMap[dep.name].dependenciesExists = "true"

\* a targeted unload has removed a live plugin and left a resolved record
\* that declares a dependency
C40_Witness ==
    /\ status = "running"
    /\ \A k \in DOMAIN pluginsMap : ~pluginsMap[k].null
    /\ last.op = "unloadPlugin"
    /\ last.ret = "true"
    /\ last.calls # <<>>
    /\ \E n \in Records :
          /\ pluginsMap[n].dependenciesExists = "true"
          /\ pluginsMap[n].info.dependencies # <<>>

====
